---- MODULE Spec2Model ----
(***************************************************************************)
(* Model of the proposal generator's document engine:                      *)
(*   - the section parser of PreviewStep (the parsing effect),             *)
(*   - the App handlers (generate, rewrite, restore, back, history),       *)
(*   - the section patch of PreviewStep (handleExpandSection),             *)
(*   - the fragment streams of the generation service.                     *)
(* Text is a sequence of one-character strings.                            *)
(***************************************************************************)
EXTENDS Integers, Sequences, FiniteSets, TLC

(***************************************************************************)
(* Bounds of the model.                                                    *)
(***************************************************************************)
\* streams started (generate, rewrite, section patch) plus fragments
\* delivered, all streams together, in one behaviour
MaxWork == 4
\* pieces concatenated into one input text of the parser specification
MaxPieces == 3
\* scroll timers waiting to run at one time
MaxTimers == 2

(***************************************************************************)
(* Characters and strings.                                                 *)
(***************************************************************************)
NL == "\n"

\* JavaScript \s restricted to the characters of the model's texts; "\n"
\* never occurs inside a line produced by split('\n').
IsSpace(c) == c = " "

\* The characters removed by .replace(/[*_]/g, '').
IsEmphasis(c) == c = "*" \/ c = "_"

RECURSIVE Flatten(_)
\* Array.prototype.join('') of a list of strings.
Flatten(ss) == IF ss = <<>> THEN <<>> ELSE Head(ss) \o Flatten(Tail(ss))

RECURSIVE JoinNL(_)
\* Array.prototype.join('\n') of a list of lines.
JoinNL(ls) ==
    IF ls = <<>> THEN <<>>
    ELSE IF Len(ls) = 1 THEN ls[1]
    ELSE ls[1] \o <<NL>> \o JoinNL(Tail(ls))

RECURSIVE SplitFrom(_, _, _)
\* String.prototype.split('\n'): cur is the line being collected.
SplitFrom(s, i, cur) ==
    IF i > Len(s) THEN <<cur>>
    ELSE IF s[i] = NL THEN <<cur>> \o SplitFrom(s, i + 1, <<>>)
    ELSE SplitFrom(s, i + 1, Append(cur, s[i]))

SplitLines(s) == SplitFrom(s, 1, <<>>)

RECURSIVE SkipSpaces(_, _)
\* Index of the first character at or after i that is not whitespace
\* (Len(s) + 1 when there is none).
SkipSpaces(s, i) ==
    IF i <= Len(s) /\ IsSpace(s[i]) THEN SkipSpaces(s, i + 1) ELSE i

RECURSIVE StripEmphasis(_)
StripEmphasis(s) ==
    IF s = <<>> THEN <<>>
    ELSE IF IsEmphasis(Head(s)) THEN StripEmphasis(Tail(s))
    ELSE <<Head(s)>> \o StripEmphasis(Tail(s))

RECURSIVE TrimRight(_)
TrimRight(s) ==
    IF s # <<>> /\ IsSpace(s[Len(s)]) THEN TrimRight(SubSeq(s, 1, Len(s) - 1))
    ELSE s

\* String.prototype.trim().
Trim(s) == TrimRight(SubSeq(s, SkipSpaces(s, 1), Len(s)))

\* line.trim() is non-empty: the line has a character that is not whitespace.
HasText(line) == SkipSpaces(line, 1) <= Len(line)

NoMatch == [matched |-> FALSE, group |-> <<>>]

\* line.match(/^\s*<marker>\s+(.+)$/): leading whitespace, the marker, at
\* least one whitespace character, then a non-empty capture running to the
\* end of the line.  \s+ is greedy but gives one character back when the
\* whitespace runs to the end of the line, so that (.+) can match.
HeadingMatch(line, marker) ==
    LET i == SkipSpaces(line, 1)
        j == i + Len(marker)
        k == SkipSpaces(line, j)
    IN  IF j - 1 > Len(line) \/ SubSeq(line, i, j - 1) # marker THEN NoMatch
        ELSE IF k = j THEN NoMatch
        ELSE IF k <= Len(line)
             THEN [matched |-> TRUE, group |-> SubSeq(line, k, Len(line))]
        ELSE IF k - j >= 2
             THEN [matched |-> TRUE, group |-> <<line[Len(line)]>>]
        ELSE NoMatch

h1Match(line) == HeadingMatch(line, <<"#">>)

h2Match(line) == HeadingMatch(line, <<"#", "#">>)

\* h?Match[1].replace(/[*_]/g, '').trim()
rawTitleOf(group) == Trim(StripEmphasis(group))

(***************************************************************************)
(* The section parser (PreviewStep's parsing effect).                      *)
(***************************************************************************)
NoSection == [id |-> <<"none">>]

\* The title of the synthetic intro section (a four-character literal).
IntroTitle == <<"X", "M", "G", "L">>

\* The intro section with its body trimmed (join('\n').trim()).
IntroSectionTrimmed(body) ==
    [id |-> <<"intro">>, title |-> IntroTitle, content |-> Trim(body),
     rawBody |-> Trim(body), subHeaders |-> <<>>]

IntroSection(body) ==
    [id |-> <<"intro">>, title |-> IntroTitle, content |-> body,
     rawBody |-> body, subHeaders |-> <<>>]

ParserStart ==
    [parsedSections |-> <<>>, currentSection |-> NoSection,
     introBuffer |-> <<>>, seenTitles |-> {}, skipCurrentBlock |-> FALSE]

\* DuplicateHeading without the skip: the repeated heading line is dropped
\* and the lines after it go on into the section under construction.
DuplicateHeadingKeepingBody(st) ==
    [st EXCEPT !.skipCurrentBlock = FALSE]

\* DuplicateHeading without currentSection = null: the section it has
\* committed stays under construction.
DuplicateHeadingKeepingCurrent(st) ==
    [st EXCEPT !.skipCurrentBlock = TRUE,
               !.parsedSections =
                   IF st.currentSection # NoSection
                   THEN Append(@, st.currentSection) ELSE @]

\* A top-level heading whose title was already seen: commit the section
\* under construction and skip the block.
DuplicateHeading(st) ==
    [st EXCEPT !.skipCurrentBlock = TRUE,
               !.parsedSections =
                   IF st.currentSection # NoSection
                   THEN Append(@, st.currentSection) ELSE @,
               !.currentSection = NoSection]

\* NovelHeading committing the section under construction before the
\* ones already committed (parsedSections.unshift for parsedSections.push).
NovelHeadingCommittingFirst(st, line, rawTitle) ==
    LET committed ==
            IF st.currentSection # NoSection
            THEN <<st.currentSection>> \o st.parsedSections
            ELSE IF st.introBuffer # <<>>
                    /\ \E n \in 1..Len(st.introBuffer) : HasText(st.introBuffer[n])
            THEN Append(st.parsedSections,
                        IntroSection(JoinNL(st.introBuffer) \o <<NL>>))
            ELSE st.parsedSections
    IN  [parsedSections |-> committed,
         currentSection |->
             [id |-> <<"sec", Len(committed) + 1>>, title |-> rawTitle,
              content |-> line \o <<NL>>, rawBody |-> <<>>,
              subHeaders |-> <<>>],
         introBuffer |-> <<>>,
         seenTitles |-> st.seenTitles \cup {rawTitle},
         skipCurrentBlock |-> FALSE]

\* A top-level heading with a new title.
NovelHeading(st, line, rawTitle) ==
    LET committed ==
            IF st.currentSection # NoSection
            THEN Append(st.parsedSections, st.currentSection)
            ELSE IF st.introBuffer # <<>>
                    /\ \E n \in 1..Len(st.introBuffer) : HasText(st.introBuffer[n])
            THEN Append(st.parsedSections,
                        IntroSection(JoinNL(st.introBuffer) \o <<NL>>))
            ELSE st.parsedSections
    IN  [parsedSections |-> committed,
         currentSection |->
             [id |-> <<"sec", Len(committed) + 1>>, title |-> rawTitle,
              content |-> line \o <<NL>>, rawBody |-> <<>>,
              subHeaders |-> <<>>],
         introBuffer |-> <<>>,
         seenTitles |-> st.seenTitles \cup {rawTitle},
         skipCurrentBlock |-> FALSE]

\* ContentLine with a sub-heading put before the ones already found
\* (subHeaders.unshift for subHeaders.push).
ContentLineNewestFirst(st, line) ==
    IF st.skipCurrentBlock THEN st
    ELSE IF st.currentSection # NoSection
    THEN LET cs == st.currentSection
             h2 == h2Match(line)
         IN  [st EXCEPT !.currentSection =
                 [cs EXCEPT !.content = @ \o line \o <<NL>>,
                            !.rawBody = @ \o line \o <<NL>>,
                            !.subHeaders =
                                IF h2.matched
                                THEN <<[id |-> <<"sub", cs.id, Len(cs.subHeaders)>>,
                                        title |-> rawTitleOf(h2.group)]>> \o @
                                ELSE @]]
    ELSE [st EXCEPT !.introBuffer = Append(@, line)]

\* A line that is no top-level heading.
ContentLine(st, line) ==
    IF st.skipCurrentBlock THEN st
    ELSE IF st.currentSection # NoSection
    THEN LET cs == st.currentSection
             h2 == h2Match(line)
         IN  [st EXCEPT !.currentSection =
                 [cs EXCEPT !.content = @ \o line \o <<NL>>,
                            !.rawBody = @ \o line \o <<NL>>,
                            !.subHeaders =
                                IF h2.matched
                                THEN Append(@, [id |-> <<"sub", cs.id, Len(cs.subHeaders)>>,
                                                title |-> rawTitleOf(h2.group)])
                                ELSE @]]
    ELSE [st EXCEPT !.introBuffer = Append(@, line)]

\* The body of lines.forEach.
ParseLine(st, line) ==
    LET h1 == h1Match(line)
    IN  IF h1.matched
        THEN IF rawTitleOf(h1.group) \in st.seenTitles
             THEN DuplicateHeading(st)
             ELSE NovelHeading(st, line, rawTitleOf(h1.group))
        ELSE ContentLine(st, line)

RECURSIVE ParseLines(_, _, _)
ParseLines(st, lines, n) ==
    IF n > Len(lines) THEN st
    ELSE ParseLines(ParseLine(st, lines[n]), lines, n + 1)

\* The commit after the scan.
FinalCommit(st) ==
    IF st.currentSection # NoSection /\ ~st.skipCurrentBlock
    THEN Append(st.parsedSections, st.currentSection)
    ELSE IF st.parsedSections = <<>> /\ st.introBuffer # <<>> /\ ~st.skipCurrentBlock
    THEN Append(st.parsedSections, IntroSection(JoinNL(st.introBuffer)))
    ELSE st.parsedSections

\* The parse without the effect's early return for empty content.
ParseSectionsUnguarded(text) ==
    FinalCommit(ParseLines(ParserStart, SplitLines(text), 1))

\* content -> parsedSections.
ParseSections(text) ==
    IF text = <<>> THEN <<>>
    ELSE FinalCommit(ParseLines(ParserStart, SplitLines(text), 1))

(***************************************************************************)
(* State.                                                                  *)
(***************************************************************************)
VARIABLES
    step,               \* App: AppStep shown
    formData,           \* App: the submitted form, or NoForm (null)
    content,            \* App: the full text of the document
    isStreaming,        \* App: whole-document in-flight flag
    error,              \* App: error message, or NoError (null)
    history,            \* App: ProposalVersion list, newest first
    sections,           \* PreviewStep: parsed sections
    sectionsRef,        \* PreviewStep: sectionsRef.current
    activeSectionIndex, \* PreviewStep: 0-based index of the section shown
    isExpanding,        \* PreviewStep: section patch in-flight flag
    showExpandModal,    \* PreviewStep: the section-expansion dialog is open
    targetSubHeader,    \* PreviewStep: sub-heading to scroll to, or NoTarget (null)
    scrollTimers,       \* PreviewStep: scroll timers (setTimeout 300) not yet run
    streams,            \* the fragment streams started so far, in start order
    work,               \* streams started plus fragments delivered so far
    last                \* the last event handled (history variable)

vars == <<step, formData, content, isStreaming, error, history, sections,
          sectionsRef, activeSectionIndex, isExpanding, showExpandModal,
          targetSubHeader, scrollTimers, streams, work, last>>

appVars == <<step, formData, content, isStreaming, error, history>>

scrollVars == <<targetSubHeader, scrollTimers>>

previewVars ==
    <<sections, sectionsRef, activeSectionIndex, isExpanding, showExpandModal,
      scrollVars>>

NoForm == "null"

NoError == "null"

\* null as the value of targetSubHeader: a one-token text no title is.
NoTarget == <<"null">>

\* The forms a user can submit (validation happens in InputStep).
Forms == {"form"}

\* Free-text rewrite instructions: none, or some text.
Instructions == {<<>>, <<"r">>}

\* The fragments a generator can deliver: an empty chunk, a document of
\* three sections, a heading line alone, a body line alone, and text that
\* stops in the middle of a second heading line.
Fragments ==
    { <<>>,
      <<"#", " ", "A", NL, "x", NL, "#", " ", "B", NL, "y", NL,
        "#", " ", "C", NL, "z", NL>>,
      <<"#", " ", "B", NL>>,
      <<"w", NL>>,
      <<"#", " ", "B", "w", NL, "#", " ", "B">> }

\* err.message || "An unexpected error occurred ..."
ErrMessage == "stream failed"

\* PreviewStep is rendered: step === AppStep.PREVIEW && formData.
Mounted == step = "PREVIEW" /\ formData # NoForm

(***************************************************************************)
(* Streams.  A stream is one call of generateProposalStream ("gen") or of  *)
(* expandSectionStream ("patch") together with the closure of its onChunk  *)
(* callback: targetIndex and newSectionContentAccumulator for a patch, and *)
(* the sectionsRef its callback reads (the mounted component's while live, *)
(* the value left at unmount afterwards).  snapshot is the section list    *)
(* the patch handler read when it was called; abandoned marks a            *)
(* whole-document stream the user navigated away from.                     *)
(***************************************************************************)
ClosedStream(kind) ==
    [kind |-> kind, open |-> FALSE, abandoned |-> FALSE, live |-> FALSE,
     targetIndex |-> 0, acc |-> <<>>, frozenRef |-> <<>>, snapshot |-> <<>>]

GenStream == [ClosedStream("gen") EXCEPT !.open = TRUE]

PatchStream(target, snap) ==
    [ClosedStream("patch") EXCEPT !.open = TRUE, !.live = TRUE,
                                  !.targetIndex = target, !.snapshot = snap]

OpenStreams == {i \in 1..Len(streams) : streams[i].open}

(***************************************************************************)
(* PreviewStep's parsing effect, run after a render in which content or    *)
(* isStreaming changed: sections and sectionsRef become the parse of the   *)
(* new content, and the active index follows the writer.                   *)
(***************************************************************************)
\* The auto-switch without its isStreaming test.
AutoSwitchAlways(parsed, streaming, active) ==
    IF Len(parsed) > 0 /\ active >= Len(parsed) - 2
    THEN Len(parsed) - 1
    ELSE active

AutoSwitch(parsed, streaming, active) ==
    IF streaming /\ Len(parsed) > 0 /\ active >= Len(parsed) - 2
    THEN Len(parsed) - 1
    ELSE active

ParsingEffect(newContent, newStreaming) ==
    LET parsed == ParseSections(newContent)
    IN  /\ sections' = parsed
        /\ sectionsRef' = parsed
        /\ activeSectionIndex' =
               IF newContent = <<>> THEN activeSectionIndex
               ELSE AutoSwitch(parsed, newStreaming, activeSectionIndex)

\* The effect with isStreaming as its only dependency
\* (useEffect(..., [isStreaming])): a change of content alone does not run it.
AfterRenderOnFlagChange(newContent, newStreaming) ==
    IF Mounted /\ newStreaming # isStreaming
    THEN ParsingEffect(newContent, newStreaming)
    ELSE UNCHANGED <<sections, sectionsRef, activeSectionIndex>>

\* The effect after an App state change, when PreviewStep stays as it is
\* (mounted or not).
AfterRender(newContent, newStreaming) ==
    IF Mounted /\ (newContent # content \/ newStreaming # isStreaming)
    THEN ParsingEffect(newContent, newStreaming)
    ELSE UNCHANGED <<sections, sectionsRef, activeSectionIndex>>

(***************************************************************************)
(* PreviewStep's scroll effect, run after a render in which                *)
(* activeSectionIndex, targetSubHeader or isStreaming changed: with a      *)
(* target that JavaScript takes as true (neither null nor "") and no       *)
(* whole-document run flagged, it sets a timer that will scroll to the     *)
(* sub-heading and reset the target.  The effect has no cleanup, so a      *)
(* timer once set always runs.                                             *)
(***************************************************************************)
\* if (targetSubHeader ...): a string is true unless it is empty.
Truthy(target) == target # NoTarget /\ target # <<>>

\* The effect after a render that leaves activeSectionIndex as it is.
ScrollEffect(newTarget, newStreaming) ==
    /\ targetSubHeader' = newTarget
    /\ scrollTimers' =
           IF /\ Mounted
              /\ newTarget # targetSubHeader \/ newStreaming # isStreaming
              /\ Truthy(newTarget) /\ ~newStreaming
           THEN scrollTimers + 1
           ELSE scrollTimers

(***************************************************************************)
(* Version history (App).                                                  *)
(***************************************************************************)
\* instructions.slice(0, 10)
Slice10(instructions) ==
    SubSeq(instructions, 1, IF Len(instructions) < 10 THEN Len(instructions) ELSE 10)

\* The label handleRewrite gives the snapshot.
RewriteLabel(instructions) ==
    IF instructions # <<>>
    THEN [kind |-> "rewrite", text |-> Slice10(instructions), n |-> 0]
    ELSE [kind |-> "version", text |-> <<>>, n |-> Len(history) + 1]

\* saveCurrentToHistory with the new version put in place of the list
\* (setHistory([newVersion]) for setHistory(prev => [newVersion, ...prev])).
saveCurrentDroppingOlder(label) ==
    IF content = <<>> THEN history
    ELSE <<[content |-> content, label |-> label]>>

\* saveCurrentToHistory with the new version put after the older ones
\* (setHistory(prev => [...prev, newVersion])).
saveCurrentAtEnd(label) ==
    IF content = <<>> THEN history
    ELSE history \o <<[content |-> content, label |-> label]>>

\* saveCurrentToHistory(label): the history it leaves.  The id and the
\* timestamp of a version (Date.now()) are read by no operation and are
\* left out.
saveCurrentToHistory(label) ==
    IF content = <<>> THEN history
    ELSE <<[content |-> content, label |-> label]>> \o history

(***************************************************************************)
(* What the rendered page lets the user do.                                *)
(***************************************************************************)
\* InputStep is shown and its submit button is enabled (isSubmitting is
\* isStreaming && step === INPUT).
CanSubmit == step = "INPUT" /\ ~isStreaming

\* The toolbar shows history and rewrite only when nothing is flagged as
\* in flight.
ToolbarIdle == Mounted /\ ~isStreaming /\ ~isExpanding

HasActiveSection ==
    activeSectionIndex >= 0 /\ activeSectionIndex < Len(sections)

\* No dialog covers the page (the expansion dialog is a full-screen overlay).
NoDialog == ~showExpandModal

\* The two section buttons are enabled.
CanExpand == ToolbarIdle /\ HasActiveSection

(***************************************************************************)
(* App handlers.                                                           *)
(***************************************************************************)
\* handleGenerate(data), up to the await; PreviewStep mounts with fresh
\* state and its effect parses the empty content.
handleGenerate(data) ==
    /\ formData' = data
    /\ step' = "PREVIEW"
    /\ content' = <<>>
    /\ history' = <<>>
    /\ isStreaming' = TRUE
    /\ error' = NoError
    /\ streams' = Append(streams, GenStream)
    /\ sections' = <<>>
    /\ sectionsRef' = <<>>
    /\ activeSectionIndex' = 0
    /\ isExpanding' = FALSE
    /\ showExpandModal' = FALSE
    /\ targetSubHeader' = NoTarget
    /\ scrollTimers' = 0
    /\ work' = work + 1
    /\ last' = [op |-> "generate", arg |-> Len(streams) + 1]

\* handleRewrite taking its snapshot after it has cleared the document
\* (saveCurrentToHistory called after setContent("")): nothing is saved.
handleRewriteClearingFirst(instructions) ==
    /\ IF formData = NoForm
       THEN UNCHANGED <<appVars, previewVars, streams, work>>
       ELSE /\ history' = history
            /\ content' = <<>>
            /\ isStreaming' = TRUE
            /\ error' = NoError
            /\ streams' = Append(streams, GenStream)
            /\ work' = work + 1
            /\ AfterRender(<<>>, TRUE)
            /\ UNCHANGED <<step, formData, isExpanding, showExpandModal, scrollVars>>
    /\ last' = [op |-> "rewrite", arg |-> Len(streams) + 1]

\* handleRewrite(instructions), up to the await.
handleRewrite(instructions) ==
    /\ IF formData = NoForm
       THEN UNCHANGED <<appVars, previewVars, streams, work>>
       ELSE /\ history' = saveCurrentToHistory(RewriteLabel(instructions))
            /\ content' = <<>>
            /\ isStreaming' = TRUE
            /\ error' = NoError
            /\ streams' = Append(streams, GenStream)
            /\ work' = work + 1
            /\ AfterRender(<<>>, TRUE)
            /\ UNCHANGED <<step, formData, isExpanding, showExpandModal, scrollVars>>
    /\ last' = [op |-> "rewrite", arg |-> Len(streams) + 1]

\* handleRestoreVersion appending the version to the current text
\* (setContent(prev => prev + version.content), as the stream callbacks do).
handleRestoreAppending(version) ==
    /\ IF isStreaming
       THEN UNCHANGED <<content, sections, sectionsRef, activeSectionIndex>>
       ELSE /\ content' = content \o version.content
            /\ AfterRender(content \o version.content, isStreaming)
    /\ last' = [op |-> "restore", arg |-> [version |-> version, before |-> content]]
    /\ UNCHANGED <<step, formData, isStreaming, error, history, isExpanding,
                   showExpandModal, scrollVars, streams, work>>

\* handleRestoreVersion with its commented-out auto-save enabled
\* (saveCurrentToHistory("Auto-save before restore")).
handleRestoreAutoSaving(version) ==
    /\ IF isStreaming
       THEN UNCHANGED <<content, sections, sectionsRef, activeSectionIndex, history>>
       ELSE /\ history' = saveCurrentToHistory([kind |-> "autosave", text |-> <<>>, n |-> 0])
            /\ content' = version.content
            /\ AfterRender(version.content, isStreaming)
    /\ last' = [op |-> "restore", arg |-> [version |-> version, before |-> content]]
    /\ UNCHANGED <<step, formData, isStreaming, error, isExpanding,
                   showExpandModal, scrollVars, streams, work>>

\* handleRestoreVersion(version).
handleRestoreVersion(version) ==
    /\ IF isStreaming
       THEN UNCHANGED <<content, sections, sectionsRef, activeSectionIndex>>
       ELSE /\ content' = version.content
            /\ AfterRender(version.content, isStreaming)
    /\ last' = [op |-> "restore", arg |-> [version |-> version, before |-> content]]
    /\ UNCHANGED <<step, formData, isStreaming, error, history, isExpanding,
                   showExpandModal, scrollVars, streams, work>>

\* Unmounting PreviewStep: its state is gone (the next mount starts from the
\* useState defaults), and the callbacks of its patch streams keep the
\* sectionsRef object with the value it had.
Unmount ==
    /\ sections' = <<>>
    /\ sectionsRef' = <<>>
    /\ activeSectionIndex' = 0
    /\ isExpanding' = FALSE
    /\ showExpandModal' = FALSE
    /\ targetSubHeader' = NoTarget
    /\ scrollTimers' = 0

StreamAfterBack(s, abandon) ==
    IF ~s.open THEN s
    ELSE IF s.kind = "patch"
    THEN IF s.live THEN [s EXCEPT !.live = FALSE, !.frozenRef = sectionsRef] ELSE s
    ELSE IF abandon THEN [s EXCEPT !.abandoned = TRUE] ELSE s

\* handleBack(); confirmed is the answer to window.confirm.  A declined
\* confirmation changes nothing.
handleBack(confirmed) ==
    IF ~isStreaming \/ confirmed
    THEN /\ step' = "INPUT"
         /\ isStreaming' = FALSE
         /\ streams' = [i \in 1..Len(streams) |->
                           StreamAfterBack(streams[i], isStreaming)]
         /\ Unmount
         /\ last' = [op |-> "back", arg |-> isStreaming]
         /\ UNCHANGED <<formData, content, error, history, work>>
    ELSE UNCHANGED vars

(***************************************************************************)
(* PreviewStep handlers.                                                   *)
(***************************************************************************)
\* The sidebar's section button: setActiveSectionIndex(idx).
selectSection(idx) ==
    /\ activeSectionIndex' = idx
    /\ targetSubHeader' = NoTarget
    /\ last' = [op |-> "select", arg |-> idx]
    /\ UNCHANGED <<appVars, sections, sectionsRef, isExpanding, showExpandModal,
                   scrollTimers, streams, work>>

\* A sub-heading button of the sidebar: setTargetSubHeader(sub.title).
selectSubHeader(title) ==
    /\ ScrollEffect(title, isStreaming)
    /\ last' = [op |-> "selectSub", arg |-> title]
    /\ UNCHANGED <<appVars, sections, sectionsRef, activeSectionIndex, isExpanding,
                   showExpandModal, streams, work>>

\* The callback of a scroll timer: it scrolls to the first h2 element whose
\* text includes the target, if there is one (no state of the program
\* changes), and resets the target.
scrollTimeout ==
    /\ scrollTimers' = scrollTimers - 1
    /\ targetSubHeader' = NoTarget
    /\ last' = [op |-> "scrollTimeout", arg |-> targetSubHeader]
    /\ UNCHANGED <<appVars, sections, sectionsRef, activeSectionIndex, isExpanding,
                   showExpandModal, streams, work>>

\* handleExpandSection saving the text it is about to patch
\* (onSaveVersion("...") before the stream is started).
handleExpandSectionSaving ==
    /\ IF ~HasActiveSection \/ isExpanding
       THEN UNCHANGED <<isExpanding, streams, work, history>>
       ELSE /\ isExpanding' = TRUE
            /\ work' = work + 1
            /\ streams' = Append(streams, PatchStream(activeSectionIndex, sections))
            /\ history' = saveCurrentToHistory([kind |-> "patch", text |-> <<>>, n |-> 0])
    /\ last' = [op |-> "expand",
                arg |-> [stream |-> Len(streams) + 1,
                         rejected |-> ~HasActiveSection \/ isExpanding]]
    /\ UNCHANGED <<step, formData, content, isStreaming, error, sections,
                   sectionsRef, activeSectionIndex, scrollVars>>

\* handleExpandSection(requirements), up to the await.  The requirements
\* only go into the generator's prompt.
handleExpandSection ==
    /\ IF ~HasActiveSection \/ isExpanding
       THEN UNCHANGED <<isExpanding, streams, work>>
       ELSE /\ isExpanding' = TRUE
            /\ work' = work + 1
            /\ streams' = Append(streams, PatchStream(activeSectionIndex, sections))
    /\ last' = [op |-> "expand",
                arg |-> [stream |-> Len(streams) + 1,
                         rejected |-> ~HasActiveSection \/ isExpanding]]
    /\ UNCHANGED <<appVars, sections, sectionsRef, activeSectionIndex, scrollVars>>

\* handleInsertDiagram().
handleInsertDiagram ==
    /\ handleExpandSection
    /\ UNCHANGED showExpandModal

\* handleOpenExpandModal(); the requirements text is not modelled.
handleOpenExpandModal ==
    /\ showExpandModal' = TRUE
    /\ last' = [op |-> "openExpand", arg |-> 0]
    /\ UNCHANGED <<appVars, sections, sectionsRef, activeSectionIndex, isExpanding,
                   scrollVars, streams, work>>

\* The dialog's close and cancel buttons: setShowExpandModal(false).
closeExpandModal ==
    /\ showExpandModal' = FALSE
    /\ last' = [op |-> "closeExpand", arg |-> 0]
    /\ UNCHANGED <<appVars, sections, sectionsRef, activeSectionIndex, isExpanding,
                   scrollVars, streams, work>>

\* handleConfirmExpand().
handleConfirmExpand ==
    /\ showExpandModal' = FALSE
    /\ handleExpandSection

(***************************************************************************)
(* Exports (PreviewStep).  They change no state of the program; the text   *)
(* handed to the browser is recorded in last.  Markup is modelled as       *)
(* one-element tokens.                                                     *)
(***************************************************************************)
\* rawBody.replace(/\n/g, '<br/>')
ReplaceNL(text) ==
    [n \in 1..Len(text) |-> IF text[n] = NL THEN "<br/>" ELSE text[n]]

RECURSIVE JoinWith(_, _)
\* Array.prototype.join(sep)
JoinWith(parts, sep) ==
    IF parts = <<>> THEN <<>>
    ELSE IF Len(parts) = 1 THEN parts[1]
    ELSE parts[1] \o sep \o JoinWith(Tail(parts), sep)

\* htmlContent of handleExportWord.
htmlContent ==
    JoinWith([n \in 1..Len(sections) |->
                 <<"<h1>">> \o sections[n].title \o <<"</h1>", NL>>
                 \o ReplaceNL(sections[n].rawBody)],
             <<"<br/>", "<hr/>", "<br/>">>)

\* header + htmlContent + footer
sourceHTML == <<"<html><body>">> \o htmlContent \o <<"</body></html>">>

\* handleExportWord().
handleExportWord ==
    /\ last' = [op |-> "exportWord", arg |-> sourceHTML]
    /\ UNCHANGED <<appVars, previewVars, streams, work>>

\* handleDownload(): new Blob([content]).
handleDownload ==
    /\ last' = [op |-> "download", arg |-> content]
    /\ UNCHANGED <<appVars, previewVars, streams, work>>

\* handleCopy(): clipboard.writeText(content); the copySuccess indicator
\* is not modelled.
handleCopy ==
    /\ last' = [op |-> "copy", arg |-> content]
    /\ UNCHANGED <<appVars, previewVars, streams, work>>

(***************************************************************************)
(* Fragment streams (generateProposalStream, expandSectionStream).         *)
(***************************************************************************)
\* onChunk of handleGenerate and handleRewrite: setContent(prev => prev + chunk).
genOnChunk(i, chunk) ==
    /\ content' = content \o chunk
    /\ AfterRender(content \o chunk, isStreaming)
    /\ streams' = [streams EXCEPT ![i].acc = @ \o chunk]

\* The full text handleExpandSection's onChunk builds:
\* currentSections.map((s, i) => i === targetIndex ? acc : s.content).join('').
updatedFullContent(currentSections, targetIndex, acc) ==
    Flatten([n \in 1..Len(currentSections) |->
                IF n - 1 = targetIndex THEN acc ELSE currentSections[n].content])

\* onChunk of handleExpandSection replacing the section that is active
\* when the fragment arrives (i === activeSectionIndex for i === targetIndex).
patchOnChunkAtActiveIndex(i, chunk) ==
    LET s == streams[i]
        acc == s.acc \o chunk
        currentSections == IF s.live THEN sectionsRef ELSE s.frozenRef
        full == updatedFullContent(currentSections, activeSectionIndex, acc)
    IN  /\ streams' = [streams EXCEPT ![i].acc = acc]
        /\ IF Len(currentSections) <= activeSectionIndex
           THEN UNCHANGED <<content, sections, sectionsRef, activeSectionIndex>>
           ELSE /\ content' = full
                /\ AfterRender(full, isStreaming)

\* onChunk of handleExpandSection.
patchOnChunk(i, chunk) ==
    LET s == streams[i]
        acc == s.acc \o chunk
        currentSections == IF s.live THEN sectionsRef ELSE s.frozenRef
        full == updatedFullContent(currentSections, s.targetIndex, acc)
    IN  /\ streams' = [streams EXCEPT ![i].acc = acc]
        /\ IF Len(currentSections) <= s.targetIndex
           THEN UNCHANGED <<content, sections, sectionsRef, activeSectionIndex>>
           ELSE /\ content' = full
                /\ AfterRender(full, isStreaming)

\* One turn of the service's "for await" loop: a chunk with empty text is
\* not passed on.
StreamChunk(i, chunk) ==
    /\ i \in OpenStreams
    /\ work < MaxWork
    /\ work' = work + 1
    /\ IF chunk = <<>>
       THEN UNCHANGED <<content, sections, sectionsRef, activeSectionIndex, streams>>
       ELSE IF streams[i].kind = "gen" THEN genOnChunk(i, chunk)
       ELSE patchOnChunk(i, chunk)
    /\ last' = [op |-> "chunk", arg |-> [stream |-> i, chunk |-> chunk]]
    /\ UNCHANGED <<step, formData, isStreaming, error, history, isExpanding,
                   showExpandModal, scrollVars>>

\* StreamEnd with isStreaming cleared after the await instead of in the
\* finally block: a rejected whole-document stream leaves the flag set.
StreamEndKeepingFlag(i, failed) ==
    /\ i \in OpenStreams
    /\ streams' = [streams EXCEPT ![i] = ClosedStream(streams[i].kind)]
    /\ IF streams[i].kind = "gen"
       THEN /\ isStreaming' = IF failed THEN isStreaming ELSE FALSE
            /\ error' = IF failed THEN ErrMessage ELSE error
            /\ UNCHANGED isExpanding
       ELSE /\ isExpanding' = IF streams[i].live THEN FALSE ELSE isExpanding
            /\ UNCHANGED <<isStreaming, error>>
    /\ AfterRender(content, IF streams[i].kind = "gen" /\ ~failed
                            THEN FALSE ELSE isStreaming)
    /\ ScrollEffect(targetSubHeader, IF streams[i].kind = "gen" /\ ~failed
                                     THEN FALSE ELSE isStreaming)
    /\ last' = [op |-> IF failed THEN "fail" ELSE "complete",
                arg |-> [stream |-> i, acc |-> streams[i].acc,
                         snapshot |-> streams[i].snapshot]]
    /\ UNCHANGED <<step, formData, content, history, showExpandModal, work>>

\* StreamEnd with a rollback in handleExpandSection's catch block: a
\* rejected patch puts back the text of the sections it started from.
StreamEndRollingBack(i, failed) ==
    LET rolledBack ==
            IF streams[i].kind = "patch" /\ failed
            THEN Flatten([n \in 1..Len(streams[i].snapshot) |->
                             streams[i].snapshot[n].content])
            ELSE content
    IN  /\ i \in OpenStreams
        /\ streams' = [streams EXCEPT ![i] = ClosedStream(streams[i].kind)]
        /\ IF streams[i].kind = "gen"
           THEN /\ isStreaming' = FALSE
                /\ error' = IF failed THEN ErrMessage ELSE error
                /\ UNCHANGED isExpanding
           ELSE /\ isExpanding' = IF streams[i].live THEN FALSE ELSE isExpanding
                /\ UNCHANGED <<isStreaming, error>>
        /\ content' = rolledBack
        /\ AfterRender(rolledBack,
                       IF streams[i].kind = "gen" THEN FALSE ELSE isStreaming)
        /\ ScrollEffect(targetSubHeader,
                        IF streams[i].kind = "gen" THEN FALSE ELSE isStreaming)
        /\ last' = [op |-> IF failed THEN "fail" ELSE "complete",
                    arg |-> [stream |-> i, acc |-> streams[i].acc,
                             snapshot |-> streams[i].snapshot]]
        /\ UNCHANGED <<step, formData, history, showExpandModal, work>>

\* StreamEnd with isExpanding cleared after the await instead of in the
\* finally block: a rejected patch leaves the flag set.
StreamEndKeepingExpanding(i, failed) ==
    /\ i \in OpenStreams
    /\ streams' = [streams EXCEPT ![i] = ClosedStream(streams[i].kind)]
    /\ IF streams[i].kind = "gen"
       THEN /\ isStreaming' = FALSE
            /\ error' = IF failed THEN ErrMessage ELSE error
            /\ UNCHANGED isExpanding
       ELSE /\ isExpanding' = IF streams[i].live /\ ~failed THEN FALSE ELSE isExpanding
            /\ UNCHANGED <<isStreaming, error>>
    /\ AfterRender(content, IF streams[i].kind = "gen" THEN FALSE ELSE isStreaming)
    /\ ScrollEffect(targetSubHeader,
                    IF streams[i].kind = "gen" THEN FALSE ELSE isStreaming)
    /\ last' = [op |-> IF failed THEN "fail" ELSE "complete",
                arg |-> [stream |-> i, acc |-> streams[i].acc,
                         snapshot |-> streams[i].snapshot]]
    /\ UNCHANGED <<step, formData, content, history, showExpandModal, work>>

\* The stream ends; failed tells whether it rejected.  The catch and
\* finally blocks of the handler that awaits it run: handleGenerate and
\* handleRewrite record the error and clear isStreaming, handleExpandSection
\* clears isExpanding of the component that started it.
StreamEnd(i, failed) ==
    /\ i \in OpenStreams
    /\ streams' = [streams EXCEPT ![i] = ClosedStream(streams[i].kind)]
    /\ IF streams[i].kind = "gen"
       THEN /\ isStreaming' = FALSE
            /\ error' = IF failed THEN ErrMessage ELSE error
            /\ UNCHANGED isExpanding
       ELSE /\ isExpanding' = IF streams[i].live THEN FALSE ELSE isExpanding
            /\ UNCHANGED <<isStreaming, error>>
    /\ AfterRender(content, IF streams[i].kind = "gen" THEN FALSE ELSE isStreaming)
    /\ ScrollEffect(targetSubHeader,
                    IF streams[i].kind = "gen" THEN FALSE ELSE isStreaming)
    /\ last' = [op |-> IF failed THEN "fail" ELSE "complete",
                arg |-> [stream |-> i, acc |-> streams[i].acc,
                         snapshot |-> streams[i].snapshot]]
    /\ UNCHANGED <<step, formData, content, history, showExpandModal, work>>

(***************************************************************************)
(* The user's actions: a handler runs when the page offers its control.    *)
(***************************************************************************)
Submit == \E data \in Forms : CanSubmit /\ work < MaxWork /\ handleGenerate(data)

Rewrite ==
    \E instructions \in Instructions :
        ToolbarIdle /\ NoDialog /\ work < MaxWork /\ handleRewrite(instructions)

Restore ==
    \E n \in 1..Len(history) :
        ToolbarIdle /\ NoDialog /\ handleRestoreVersion(history[n])

Back == \E confirmed \in BOOLEAN : Mounted /\ NoDialog /\ handleBack(confirmed)

Select ==
    \E idx \in 0..(Len(sections) - 1) :
        Mounted /\ NoDialog /\ idx # activeSectionIndex /\ selectSection(idx)

InsertDiagram == CanExpand /\ NoDialog /\ work < MaxWork /\ handleInsertDiagram

OpenExpandModal == CanExpand /\ NoDialog /\ handleOpenExpandModal

CloseExpandModal == Mounted /\ showExpandModal /\ closeExpandModal

\* The dialog's confirm button; a call the handler turns down starts no
\* stream.
ConfirmExpand ==
    /\ Mounted /\ showExpandModal
    /\ work < MaxWork \/ ~HasActiveSection \/ isExpanding
    /\ handleConfirmExpand

ExportWord == ToolbarIdle /\ NoDialog /\ handleExportWord

Download == ToolbarIdle /\ NoDialog /\ handleDownload

Copy == Mounted /\ ~isStreaming /\ NoDialog /\ handleCopy

\* The sub-heading buttons are rendered under the active section only.
SelectSubHeader ==
    \E k \in 1..(IF HasActiveSection
                 THEN Len(sections[activeSectionIndex + 1].subHeaders) ELSE 0) :
        /\ Mounted /\ NoDialog /\ scrollTimers < MaxTimers
        /\ sections[activeSectionIndex + 1].subHeaders[k].title # targetSubHeader
        /\ selectSubHeader(sections[activeSectionIndex + 1].subHeaders[k].title)

ScrollTimer == Mounted /\ scrollTimers > 0 /\ scrollTimeout

Chunk == \E i \in 1..Len(streams) : \E chunk \in Fragments : StreamChunk(i, chunk)

End == \E i \in 1..Len(streams) : \E failed \in BOOLEAN : StreamEnd(i, failed)

\* What StreamEnd(i, failed) does to streams: the open stream i is closed.
\* The steps of StreamEnd(i, failed) are the steps that do this, and it is
\* enabled exactly when this is.
StreamEndsAt(i) ==
    /\ i \in OpenStreams
    /\ streams' = [streams EXCEPT ![i] = ClosedStream(streams[i].kind)]

StreamEnds == \E i \in 1..Len(streams) : StreamEndsAt(i)

Init ==
    /\ step = "INPUT"
    /\ formData = NoForm
    /\ content = <<>>
    /\ isStreaming = FALSE
    /\ error = NoError
    /\ history = <<>>
    /\ sections = <<>>
    /\ sectionsRef = <<>>
    /\ activeSectionIndex = 0
    /\ isExpanding = FALSE
    /\ showExpandModal = FALSE
    /\ targetSubHeader = NoTarget
    /\ scrollTimers = 0
    /\ streams = <<>>
    /\ work = 0
    /\ last = [op |-> "init", arg |-> 0]

Next ==
    \/ Submit \/ Rewrite \/ Restore \/ Back \/ Select
    \/ InsertDiagram \/ OpenExpandModal \/ CloseExpandModal \/ ConfirmExpand
    \/ Chunk \/ End

Spec == Init /\ [][Next]_vars

\* The program when every stream started completes or fails in the end.
LiveSpec ==
    Init /\ [][Next]_vars /\ \A i \in 1..MaxWork : WF_streams(StreamEndsAt(i))

(***************************************************************************)
(* The program from a generated document: the state Spec reaches by a      *)
(* submit, the delivery of a document of three sections in one fragment    *)
(* and the completion of the stream.  work counts from this state on.      *)
(***************************************************************************)
Document ==
    <<"#", " ", "A", NL, "x", NL, "#", " ", "B", NL, "y", NL,
      "#", " ", "C", NL, "z", NL>>

DocInit ==
    /\ step = "PREVIEW"
    /\ formData \in Forms
    /\ content = Document
    /\ isStreaming = FALSE
    /\ error = NoError
    /\ history = <<>>
    /\ sections = ParseSections(Document)
    /\ sectionsRef = ParseSections(Document)
    /\ activeSectionIndex = 0
    /\ isExpanding = FALSE
    /\ showExpandModal = FALSE
    /\ targetSubHeader = NoTarget
    /\ scrollTimers = 0
    /\ streams = <<ClosedStream("gen")>>
    /\ work = 0
    /\ last = [op |-> "complete",
               arg |-> [stream |-> 1, acc |-> Document, snapshot |-> <<>>]]

DocSpec == DocInit /\ [][Next]_vars

(***************************************************************************)
(* The sidebar's sub-heading navigation while a document is being          *)
(* written: the state Spec reaches by a submit and the delivery of         *)
(* ScrollDocument in one fragment, the stream still open.  Every stream    *)
(* ends in the end and every timer set runs.                               *)
(***************************************************************************)
\* "# A\n## S\n## **\n# B\n": the second sub-heading's title is empty once
\* its emphasis markers are removed.
ScrollDocument ==
    <<"#", " ", "A", NL, "#", "#", " ", "S", NL, "#", "#", " ", "*", "*", NL,
      "#", " ", "B", NL>>

ScrollInit ==
    /\ step = "PREVIEW"
    /\ formData \in Forms
    /\ content = ScrollDocument
    /\ isStreaming = TRUE
    /\ error = NoError
    /\ history = <<>>
    /\ sections = ParseSections(ScrollDocument)
    /\ sectionsRef = ParseSections(ScrollDocument)
    /\ activeSectionIndex = 1
    /\ isExpanding = FALSE
    /\ showExpandModal = FALSE
    /\ targetSubHeader = NoTarget
    /\ scrollTimers = 0
    /\ streams = <<[GenStream EXCEPT !.acc = ScrollDocument]>>
    /\ work = 0
    /\ last = [op |-> "chunk", arg |-> [stream |-> 1, chunk |-> ScrollDocument]]

ScrollNext == Select \/ SelectSubHeader \/ ScrollTimer \/ Chunk \/ End

ScrollSpec ==
    ScrollInit /\ [][ScrollNext]_vars /\ WF_streams(StreamEnds) /\ WF_vars(ScrollTimer)

(***************************************************************************)
(* The parser alone: PreviewStep is mounted on a given text and its        *)
(* parsing effect runs once.                                               *)
(***************************************************************************)
\* The pieces input texts are made of: heading lines (one of them with
\* emphasis markers, one spelling the intro title), a sub-heading line, a
\* body line, a blank line, and text that ends no line.
Pieces ==
    { <<"#", " ", "A", NL>>,
      <<"#", " ", "B", NL>>,
      <<"#", " ", "*", "A", "*", NL>>,
      <<"#", " ", "X", "M", "G", "L", NL>>,
      <<"#", "#", " ", "S", NL>>,
      <<"x", NL>>,
      <<NL>>,
      <<" ">>,
      <<"#">>,
      <<"y">> }

\* "# A\nx\n# A\ny\n# B\nz\n"
DuplicateExample ==
    <<"#", " ", "A", NL, "x", NL, "#", " ", "A", NL, "y", NL,
      "#", " ", "B", NL, "z", NL>>

\* "hello\n# A\nbody\n"
IntroExample ==
    <<"h", "e", "l", "l", "o", NL, "#", " ", "A", NL, "b", "o", "d", "y", NL>>

\* "# A\nx\n## Sub1\ny\n## Sub2\nz\n"
SubHeaderExample ==
    <<"#", " ", "A", NL, "x", NL, "#", "#", " ", "S", "u", "b", "1", NL, "y", NL,
      "#", "#", " ", "S", "u", "b", "2", NL, "z", NL>>

RECURSIVE Concatenations(_)
\* The texts made of at most n pieces.
Concatenations(n) ==
    IF n = 0 THEN {<<>>}
    ELSE LET shorter == Concatenations(n - 1)
         IN  shorter \cup {t \o piece : t \in shorter, piece \in Pieces}

InputTexts ==
    Concatenations(MaxPieces) \cup {DuplicateExample, IntroExample, SubHeaderExample}

ParserInit ==
    /\ step = "PREVIEW"
    /\ formData \in Forms
    /\ content \in InputTexts
    /\ isStreaming = FALSE
    /\ error = NoError
    /\ history = <<>>
    /\ sections = <<>>
    /\ sectionsRef = <<>>
    /\ activeSectionIndex = 0
    /\ isExpanding = FALSE
    /\ showExpandModal = FALSE
    /\ targetSubHeader = NoTarget
    /\ scrollTimers = 0
    /\ streams = <<>>
    /\ work = 0
    /\ last = [op |-> "input", arg |-> 0]

\* The effect's run after the first render.
ParseInput ==
    /\ last.op = "input"
    /\ ParsingEffect(content, isStreaming)
    /\ last' = [op |-> "parse", arg |-> 0]
    /\ UNCHANGED <<appVars, isExpanding, showExpandModal, scrollVars, streams, work>>

\* The parse, and then the exports of the parsed text.
ParserNext ==
    \/ ParseInput
    \/ last.op # "input" /\ ExportWord
    \/ last.op # "input" /\ Download
    \/ last.op # "input" /\ Copy

ParserSpec == ParserInit /\ [][ParserNext]_vars

Parsed == last.op = "parse"

(***************************************************************************)
(* Properties.                                                             *)
(***************************************************************************)
\* The streams still delivering that the user has not navigated away from.
InFlight == {i \in OpenStreams : ~streams[i].abandoned}

\* old is the tail of new.
IsTail(old, new) ==
    /\ Len(new) >= Len(old)
    /\ SubSeq(new, Len(new) - Len(old) + 1, Len(new)) = old

Contents(secs) == [n \in 1..Len(secs) |-> secs[n].content]

\* The replacement text received so far begins with the heading of the
\* section being replaced.
KeepsHeading(s) ==
    LET h1 == h1Match(SplitLines(s.acc)[1])
    IN  /\ s.targetIndex < Len(s.snapshot)
        /\ h1.matched
        /\ rawTitleOf(h1.group) = s.snapshot[s.targetIndex + 1].title

\* C1: patch isolation.  After a fragment of a patch of index 1 of three
\* sections has been applied and the text re-parsed, the sections at index
\* 0 and 2 have the content they had before the patch (stated here for
\* replacement text that keeps the section's heading).
PatchIsolation ==
    \A i \in OpenStreams :
        LET s == streams[i]
        IN  (/\ s.kind = "patch" /\ s.live
             /\ Len(s.snapshot) = 3 /\ s.targetIndex = 1
             /\ last.op = "chunk" /\ last.arg.stream = i
             /\ s.acc # <<>> /\ KeepsHeading(s))
            => /\ Len(sections) >= 3
               /\ sections[1].content = s.snapshot[1].content
               /\ sections[3].content = s.snapshot[3].content

\* C2: single active stream.  At most one stream is applying fragments to
\* the document in any reachable state.
SingleActiveStream == Cardinality(InFlight) <= 1

\* C3: stop by abandonment.  No fragment of a whole-document stream the
\* user has abandoned changes the document.
AbandonedStreamSilent ==
    [][\A i \in 1..Len(streams) : \A chunk \in Fragments :
           (streams[i].abandoned /\ StreamChunk(i, chunk)) => content' = content]_vars

\* C4: a restore invoked while a stream is in flight changes neither the
\* document, nor the sections, nor the history.
RestoreRejectedInFlight ==
    [][(Restore /\ InFlight # {}) => UNCHANGED <<content, sections, history>>]_vars

\* C5 as stated: no step removes, reorders or changes a history entry.
HistoryAppendOnly == [][IsTail(history, history')]_vars

\* C5, amended: generate empties the history; every other step leaves the
\* previous history as the tail of the new one.
HistoryAppendOnlyExceptGenerate ==
    [][IF Submit THEN history' = <<>> ELSE IsTail(history, history')]_vars

\* A history of two entries: the second snapshot was put before the first.
HistoryGrewTwice == Len(history) >= 2

RECURSIVE DuplicateFlags(_, _, _, _)
\* For each line from n on, whether it lies in a duplicate block: a
\* top-level heading whose normalized title was seen earlier, and every line
\* after it up to the next top-level heading with a new title.
DuplicateFlags(lines, n, seen, inBlock) ==
    IF n > Len(lines) THEN <<>>
    ELSE LET h1 == h1Match(lines[n])
             title == rawTitleOf(h1.group)
             dup == IF h1.matched THEN title \in seen ELSE inBlock
         IN  <<dup>> \o DuplicateFlags(lines, n + 1,
                                       IF h1.matched THEN seen \cup {title} ELSE seen,
                                       dup)

\* The text with the lines of its duplicate blocks removed, every other
\* line kept with its line end.
WithoutDuplicateBlocks(text) ==
    LET lines == SplitLines(text)
        dup == DuplicateFlags(lines, 1, {}, FALSE)
    IN  Flatten([n \in 1..Len(lines) |->
                    IF dup[n] THEN <<>>
                    ELSE IF n < Len(lines) THEN lines[n] \o <<NL>> ELSE lines[n]])

\* C6: round trip.  The contents of the parsed sections, concatenated in
\* order, are the text with its duplicate blocks removed (stated here for
\* texts whose last line is ended by a newline).
RoundTrip ==
    (Parsed /\ content # <<>> /\ content[Len(content)] = NL)
    => Flatten(Contents(sections)) = WithoutDuplicateBlocks(content)

\* C7: title uniqueness.  No two sections of a parse result, the intro
\* section included, have the same title.
TitlesUnique ==
    Parsed => \A m, n \in 1..Len(sections) :
                  m # n => sections[m].title # sections[n].title

\* C8: the duplicate-suppression example yields exactly section A with
\* content "# A\nx\n" and section B with content "# B\nz\n", and the line y
\* is in no section.
DuplicateSuppressionExample ==
    (Parsed /\ content = DuplicateExample)
    => /\ Len(sections) = 2
       /\ sections[1].title = <<"A">>
       /\ sections[1].content = <<"#", " ", "A", NL, "x", NL>>
       /\ sections[2].title = <<"B">>
       /\ sections[2].content = <<"#", " ", "B", NL, "z", NL>>
       /\ \A n \in 1..Len(sections) :
              \A l \in 1..Len(SplitLines(sections[n].content)) :
                  SplitLines(sections[n].content)[l] # <<"y">>

\* C9: restore exactness.  After a restore made while no stream is in
\* flight, the document is the restored version's content and the sections
\* are its parse.
RestoreExact ==
    (last.op = "restore" /\ OpenStreams = {})
    => /\ content = last.arg.version.content
       /\ sections = ParseSections(last.arg.version.content)

\* A restore made with no stream in flight that replaced a different,
\* non-empty text.
RestoreReplacedText ==
    /\ last.op = "restore" /\ OpenStreams = {}
    /\ last.arg.before # <<>>
    /\ last.arg.before # last.arg.version.content
    /\ sections # <<>>

\* C10: a restore leaves the history as it is: nothing is removed or
\* reordered and no snapshot of the replaced text is added.
RestoreKeepsHistory == [][Restore => history' = history]_vars

\* A restore after which the replaced text is in no history entry.
RestoreLostText ==
    /\ last.op = "restore"
    /\ last.arg.before # <<>>
    /\ content # last.arg.before
    /\ \A n \in 1..Len(history) : history[n].content # last.arg.before

\* C11: a snapshot taken with a non-empty document puts one entry holding
\* the current text and the label at the head of the history and keeps the
\* earlier entries after it in their order; taken with an empty document
\* it changes nothing.  (handleRewrite is the only caller.)
SnapshotPrepends ==
    [][\A instructions \in Instructions :
           (ToolbarIdle /\ NoDialog /\ handleRewrite(instructions))
           => IF content = <<>>
              THEN history' = history
              ELSE /\ Len(history') = Len(history) + 1
                   /\ Head(history') =
                          [content |-> content, label |-> RewriteLabel(instructions)]
                   /\ Tail(history') = history]_vars

\* A snapshot was put before an older entry that differs from it.
SnapshotBeforeOlder ==
    /\ last.op = "rewrite"
    /\ Len(history) >= 2
    /\ history[1].content # <<>>
    /\ history[1] # history[2]

\* C12: a history entry is created once per whole-document rewrite, just
\* before the rewrite clears the document: a rewrite started with a
\* non-empty document adds exactly one entry, holding the text as it was,
\* and clears the text; every step that is not a rewrite (generation,
\* patch, restore, back, stream events) adds no entry.
SnapshotOncePerRewrite ==
    [][/\ (Rewrite /\ content # <<>>)
          => /\ Len(history') = Len(history) + 1
             /\ Head(history').content = content
             /\ Tail(history') = history
             /\ content' = <<>>
       /\ ~Rewrite => IsTail(history', history)]_vars

\* A rewrite has just saved the text it cleared as the only entry.
RewriteSavedClearedText ==
    /\ last.op = "rewrite"
    /\ content = <<>>
    /\ Len(history) = 1
    /\ history[1].content # <<>>

\* C13: whenever the preview is shown, after any append, patch fragment,
\* restore or reset has been handled, the sections (and the reference the
\* patch callbacks read) are the parse of the document text, a function of
\* that text alone.
SectionsAreParseOfContent ==
    Mounted => /\ sections = ParseSections(content)
               /\ sectionsRef = sections

\* A patch fragment has been applied to a document that still has sections.
PatchFragmentParsed ==
    /\ Mounted
    /\ last.op = "chunk"
    /\ streams[last.arg.stream].kind = "patch"
    /\ streams[last.arg.stream].acc # <<>>
    /\ Len(sections) >= 2

\* C14: accumulation.  After a fragment of a whole-document run the user
\* has not abandoned has been delivered, the document is the concatenation
\* of the fragments that run has delivered so far.
Accumulation ==
    (/\ last.op = "chunk"
     /\ streams[last.arg.stream].kind = "gen"
     /\ ~streams[last.arg.stream].abandoned)
    => content = streams[last.arg.stream].acc

\* C15: empty-input boundary.  The parse of the empty text is the empty
\* section list, and the delivery of an empty fragment leaves the sections
\* (and the document) as they are.
EmptyInputBoundary ==
    /\ []((Mounted /\ content = <<>>) => sections = <<>>)
    /\ [][\A i \in 1..Len(streams) :
              StreamChunk(i, <<>>) => /\ sections' = sections
                                      /\ content' = content]_vars

\* An empty fragment has been delivered to a document that has sections.
EmptyFragmentDelivered ==
    /\ Mounted
    /\ last.op = "chunk"
    /\ last.arg.chunk = <<>>
    /\ sections # <<>>

RECURSIVE FirstHeadingFrom(_, _)
\* The index of the first top-level heading line from n on, or 0.
FirstHeadingFrom(lines, n) ==
    IF n > Len(lines) THEN 0
    ELSE IF h1Match(lines[n]).matched THEN n
    ELSE FirstHeadingFrom(lines, n + 1)

\* The text of the lines before line first, with their line ends.
LeadingText(lines, first) ==
    Flatten([n \in 1..(first - 1) |-> lines[n] \o <<NL>>])

\* C16: intro handling.  Text before the first top-level heading that has
\* non-whitespace content becomes an intro section, placed first, whose
\* body is that text, followed by the section of that heading; a text that
\* starts with a top-level heading yields no intro section; "hello\n# A\n
\* body\n" yields the intro with body "hello\n" and then section A.
IntroHandling ==
    Parsed =>
        LET lines == SplitLines(content)
            first == FirstHeadingFrom(lines, 1)
            lead  == LeadingText(lines, first)
        IN  /\ (first > 1 /\ \E n \in 1..(first - 1) : HasText(lines[n]))
               => /\ Len(sections) >= 2
                  /\ sections[1] =
                         [id |-> <<"intro">>, title |-> IntroTitle, content |-> lead,
                          rawBody |-> lead, subHeaders |-> <<>>]
                  /\ sections[2].title = rawTitleOf(h1Match(lines[first]).group)
                  /\ \A n \in 2..Len(sections) : sections[n].id # <<"intro">>
            /\ first = 1 => \A n \in 1..Len(sections) : sections[n].id # <<"intro">>
            /\ content = IntroExample
               => /\ Len(sections) = 2
                  /\ sections[1].id = <<"intro">>
                  /\ sections[1].content = <<"h", "e", "l", "l", "o", NL>>
                  /\ sections[2].title = <<"A">>

\* The example text has been parsed into an intro and a section.
IntroExampleParsed ==
    /\ Parsed
    /\ content = IntroExample
    /\ Len(sections) = 2
    /\ sections[1].id = <<"intro">>

RECURSIVE SubTitlesFrom(_, _)
\* The normalized titles of the second-level heading lines from n on.
SubTitlesFrom(lines, n) ==
    IF n > Len(lines) THEN <<>>
    ELSE LET h2 == h2Match(lines[n])
         IN  (IF h2.matched THEN <<rawTitleOf(h2.group)>> ELSE <<>>)
             \o SubTitlesFrom(lines, n + 1)

SubTitles(section) ==
    [k \in 1..Len(section.subHeaders) |-> section.subHeaders[k].title]

HasLine(text, line) ==
    \E n \in 1..Len(SplitLines(text)) : SplitLines(text)[n] = line

\* C17: sub-heading capture.  For every section built from a top-level
\* heading, subHeaders holds the normalized titles of exactly the
\* second-level heading lines of the section's body, in the order they
\* occur, and the body (those lines included) is the end of the section's
\* content; "# A\nx\n## Sub1\ny\n## Sub2\nz\n" yields one section with
\* sub-headings Sub1, Sub2 whose lines remain in content and rawBody.
SubHeaderCapture ==
    Parsed =>
        /\ \A n \in 1..Len(sections) :
               sections[n].id # <<"intro">>
               => /\ SubTitles(sections[n]) =
                         SubTitlesFrom(SplitLines(sections[n].rawBody), 1)
                  /\ IsTail(sections[n].rawBody, sections[n].content)
        /\ content = SubHeaderExample
           => /\ Len(sections) = 1
              /\ SubTitles(sections[1]) = << <<"S", "u", "b", "1">>, <<"S", "u", "b", "2">> >>
              /\ \A text \in {sections[1].content, sections[1].rawBody} :
                     /\ HasLine(text, <<"#", "#", " ", "S", "u", "b", "1">>)
                     /\ HasLine(text, <<"#", "#", " ", "S", "u", "b", "2">>)

\* The example text has been parsed into a section with two sub-headings.
SubHeaderExampleParsed ==
    /\ Parsed
    /\ content = SubHeaderExample
    /\ Len(sections) = 1
    /\ Len(sections[1].subHeaders) = 2

\* C18: whole-document stream failure.  When a generation or rewrite
\* stream rejects, the error is recorded, isStreaming becomes false, the
\* document keeps the text applied so far and the history is unchanged.
GenerationFailureKeepsText ==
    [][\A i \in 1..Len(streams) :
           (streams[i].kind = "gen" /\ StreamEnd(i, TRUE))
           => /\ error' = ErrMessage
              /\ isStreaming' = FALSE
              /\ content' = content
              /\ history' = history]_vars

\* A whole-document stream has rejected after delivering text, which is
\* still the document.
GenerationFailedWithText ==
    /\ last.op = "fail"
    /\ streams[last.arg.stream].kind = "gen"
    /\ last.arg.acc # <<>>
    /\ content = last.arg.acc
    /\ error = ErrMessage
    /\ ~isStreaming

\* C19: patch stream failure.  When a section patch stream rejects, the
\* document and its sections stay as last synthesized (no rollback to the
\* text before the patch), and isExpanding of the component that started
\* the patch becomes false.
PatchFailureKeepsText ==
    [][\A i \in 1..Len(streams) :
           (streams[i].kind = "patch" /\ StreamEnd(i, TRUE))
           => /\ content' = content
              /\ sections' = sections
              /\ streams[i].live => isExpanding' = FALSE]_vars

\* A section patch has rejected after fragments were applied, and the
\* document is not the text the patch started from.
PatchFailedWithText ==
    /\ Mounted
    /\ last.op = "fail"
    /\ streams[last.arg.stream].kind = "patch"
    /\ last.arg.acc # <<>>
    /\ content # Flatten(Contents(last.arg.snapshot))
    /\ ~isExpanding

\* The section patch streams still delivering.
PatchesInFlight == {i \in OpenStreams : streams[i].kind = "patch"}

\* C20: starting a section patch while another section patch is in flight,
\* or while the active index refers to no section, starts no stream and
\* leaves the document, the sections, the history and the in-flight flags
\* as they are.
PatchStartRejected ==
    [][((InsertDiagram \/ ConfirmExpand)
        /\ (PatchesInFlight # {} \/ ~HasActiveSection))
       => UNCHANGED <<content, sections, history, isStreaming, isExpanding,
                      streams>>]_vars

\* The whole-document streams still delivering that the user has not
\* navigated away from.
RunsInFlight == {i \in InFlight : streams[i].kind = "gen"}

\* C21: follow-the-writer.  While a whole-document stream is in flight,
\* after a re-parse that yields a non-empty section list, an active index
\* within the last two sections is set to the index of the newest section.
FollowTheWriter ==
    [][(/\ Mounted /\ Mounted'
        /\ content' # content
        /\ RunsInFlight' # {}
        /\ sections' # <<>>
        /\ activeSectionIndex >= Len(sections') - 2)
       => activeSectionIndex' = Len(sections') - 1]_vars

HasChar(text, c) == \E n \in 1..Len(text) : text[n] = c

\* C22: exports leave out duplicate blocks.  The markdown export is the
\* text with its duplicate blocks removed, and for "# A\nx\n# A\ny\n# B\nz\n"
\* neither the markdown export nor the word-processor export holds the
\* line y of the duplicate block.
ExportsOmitDuplicates ==
    /\ last.op = "download" => last.arg = WithoutDuplicateBlocks(content)
    /\ (last.op \in {"download", "exportWord"} /\ content = DuplicateExample)
       => ~HasChar(last.arg, "y")

\* C23: a text with no top-level heading yields exactly one intro section
\* when it has non-whitespace content, and no section when it is made only
\* of whitespace and newlines.
HeadingLessText ==
    (Parsed /\ content # <<>> /\ FirstHeadingFrom(SplitLines(content), 1) = 0)
    => IF \E n \in 1..Len(SplitLines(content)) : HasText(SplitLines(content)[n])
       THEN Len(sections) = 1 /\ sections[1].id = <<"intro">>
       ELSE sections = <<>>

\* C24: reset at run start.  Starting a generation run or a whole-document
\* rewrite empties the document and the section list, and while a run is
\* in flight the document only grows by delivered fragments, so that no
\* text of the previous document comes back into it.
ResetAtRunStart ==
    [][IF Submit \/ Rewrite
       THEN content' = <<>> /\ sections' = <<>>
       ELSE (RunsInFlight # {} /\ RunsInFlight' # {} /\ content' # content)
            => \E chunk \in Fragments : content' = content \o chunk]_vars

\* The lines of a text outside its duplicate blocks, in order.
KeptLines(text) ==
    LET lines == SplitLines(text)
        dup == DuplicateFlags(lines, 1, {}, FALSE)
    IN  Flatten([n \in 1..Len(lines) |-> IF dup[n] THEN <<>> ELSE <<lines[n]>>])

\* The lines of the contents of the sections, in order.
SectionLines(secs) ==
    Flatten([n \in 1..Len(secs) |-> SplitLines(secs[n].content)])

\* The sub-heading titles of the sections, in order.
AllSubTitles(secs) == Flatten([n \in 1..Len(secs) |-> SubTitles(secs[n])])

\* The sections that are not the intro section.
HeadedSections(secs) == SelectSeq(secs, LAMBDA sec : sec.id # <<"intro">>)

\* C25: duplicate-block skipping.  The lines with text of the sections'
\* contents are exactly the lines with text outside the duplicate blocks,
\* in order, and the sub-headings are those of the lines outside the
\* duplicate blocks from the first heading on: no line of a duplicate block
\* (body line, sub-heading or repeated heading) is in a section, and the
\* lines from the next new heading on are.
DuplicateBlockSkipping ==
    Parsed =>
        LET kept == KeptLines(content)
            first == FirstHeadingFrom(kept, 1)
        IN  /\ SelectSeq(SectionLines(sections), HasText) = SelectSeq(kept, HasText)
            /\ AllSubTitles(HeadedSections(sections)) =
                   IF first = 0 THEN <<>> ELSE SubTitlesFrom(kept, first)
            /\ content = DuplicateExample
               => ~HasChar(Flatten(Contents(sections)), "y")

\* The example's duplicate block was skipped and the next heading started
\* a section.
DuplicateBlockSkipped ==
    /\ Parsed
    /\ content = DuplicateExample
    /\ Len(sections) = 2
    /\ sections[2].title = <<"B">>

RECURSIVE FirstTitlesFrom(_, _, _)
\* The normalized titles of the top-level heading lines from n on that are
\* not in seen, each at its first occurrence.
FirstTitlesFrom(lines, n, seen) ==
    IF n > Len(lines) THEN <<>>
    ELSE LET h1 == h1Match(lines[n])
             title == rawTitleOf(h1.group)
         IN  IF h1.matched /\ title \notin seen
             THEN <<title>> \o FirstTitlesFrom(lines, n + 1, seen \cup {title})
             ELSE FirstTitlesFrom(lines, n + 1, seen)

Titles(secs) == [n \in 1..Len(secs) |-> secs[n].title]

\* C26: section order and count.  The titles of the sections that are not
\* the intro section are the distinct normalized top-level titles of the
\* text, one section each, in the order of their first occurrence; this
\* holds too for a text that ends inside a duplicate block.
SectionOrderAndCount ==
    Parsed =>
        Titles(HeadedSections(sections)) =
            FirstTitlesFrom(SplitLines(content), 1, {})

\* A text that ends inside a duplicate block has been parsed into its one
\* section.
EndsInDuplicateBlock ==
    /\ Parsed
    /\ content = <<"#", " ", "A", NL, "#", " ", "A", NL, "x", NL>>
    /\ Len(sections) = 1

\* C27: patch synthesis step.  On each fragment of a patch whose target
\* index is inside the current section list, the document becomes the
\* concatenation, in order, of the contents of the current sections with
\* the entry at the target index replaced by the replacement text received
\* so far.
PatchSynthesis ==
    [][\A i \in 1..Len(streams) : \A chunk \in Fragments \ {<<>>} :
           (/\ streams[i].kind = "patch"
            /\ StreamChunk(i, chunk)
            /\ Mounted
            /\ Len(sections) > streams[i].targetIndex)
           => content' = updatedFullContent(sections, streams[i].targetIndex,
                                             streams[i].acc \o chunk)]_vars

\* C28: the patch target index is captured when the patch is started.  A
\* patch is started on the index active at that moment, the index stays
\* with the stream whatever the active index becomes, and every later
\* fragment of the patch replaces the section at that position.
TargetIndexCaptured ==
    [][/\ ((InsertDiagram \/ ConfirmExpand) /\ Len(streams') > Len(streams))
          => streams'[Len(streams')].targetIndex = activeSectionIndex
       /\ \A i \in OpenStreams \cap OpenStreams' :
              streams'[i].targetIndex = streams[i].targetIndex
       /\ \A i \in 1..Len(streams) : \A chunk \in Fragments \ {<<>>} :
              (/\ streams[i].kind = "patch" /\ streams[i].live
               /\ StreamChunk(i, chunk)
               /\ Len(sectionsRef) > streams[i].targetIndex)
              => content' = updatedFullContent(sectionsRef, streams[i].targetIndex,
                                                streams[i].acc \o chunk)]_vars

\* A fragment of a patch has been applied after the user moved to another
\* section.
PatchedAwayFromActive ==
    /\ Mounted
    /\ last.op = "chunk"
    /\ last.arg.chunk # <<>>
    /\ streams[last.arg.stream].kind = "patch"
    /\ streams[last.arg.stream].live
    /\ streams[last.arg.stream].targetIndex # activeSectionIndex
    /\ Len(streams[last.arg.stream].snapshot) > activeSectionIndex

\* C29: every section of a parse result, the intro section included, has
\* content that ends with a newline.
ContentEndsWithNewline ==
    Parsed => \A n \in 1..Len(sections) :
                  /\ sections[n].content # <<>>
                  /\ sections[n].content[Len(sections[n].content)] = NL

\* C30: a re-parse leaves the active section index as it is whenever no
\* whole-document stream is in flight (after streaming has ended, during a
\* section patch, after a restore), and during streaming when the index is
\* below the last two sections.
IndexLeftByReparse ==
    [][(/\ Chunk \/ End \/ Restore \/ Rewrite
        /\ Mounted
        /\ RunsInFlight' = {} \/ activeSectionIndex < Len(sections') - 2)
       => activeSectionIndex' = activeSectionIndex]_vars

\* A patch fragment has been re-parsed with the active index on the last
\* section but one, and the index stayed there.
IndexStayedDuringPatch ==
    /\ Mounted
    /\ last.op = "chunk"
    /\ last.arg.chunk # <<>>
    /\ streams[last.arg.stream].kind = "patch"
    /\ streams[last.arg.stream].live
    /\ RunsInFlight = {}
    /\ Len(sections) >= 2
    /\ activeSectionIndex = Len(sections) - 2

\* C31: a sub-heading scroll target, once set, is in the end cleared (every
\* whole-document stream ends in the end, and every timer set runs).
ScrollTargetCleared ==
    (targetSubHeader # NoTarget) ~> (targetSubHeader = NoTarget)

\* Selecting a section clears the target.
SelectClearsTarget ==
    [][Select => targetSubHeader' = NoTarget]_vars

\* C32: when every stream started completes or fails in the end, a set
\* isStreaming is followed by a state where it is false, and a set
\* isExpanding by a state where it is false: neither flag stays set for ever.
FlagLiveness ==
    /\ isStreaming ~> ~isStreaming
    /\ isExpanding ~> ~isExpanding

\* A section patch has failed and both flags are clear.
FlagsClearAfterFailedPatch ==
    /\ last.op = "fail"
    /\ streams[last.arg.stream].kind = "patch"
    /\ ~isStreaming /\ ~isExpanding

\* The sections of parse(t) but the last are sections of parse(full), each
\* at its position and with its id, title, content, rawBody and subHeaders.
StablePrefix(t, full) ==
    LET pre == ParseSections(t)
        all == ParseSections(full)
    IN  \A k \in 1..(Len(pre) - 1) : k <= Len(all) /\ all[k] = pre[k]

\* C33: prefix stability under appending.  For every way of writing the
\* parsed text as t followed by u, every section of parse(t) but its last
\* is in parse(t + u) at the same position and with the same fields.
PrefixStability ==
    Parsed =>
        /\ sections = ParseSections(content)
        /\ \A n \in 0..Len(content) : StablePrefix(SubSeq(content, 1, n), content)

\* The last section of parse(t) did change as u arrived, behind a section
\* that did not.
LastSectionChanged ==
    /\ Parsed
    /\ \E n \in 0..Len(content) :
           LET pre == ParseSections(SubSeq(content, 1, n))
           IN  /\ Len(pre) >= 2
               /\ Len(sections) >= Len(pre)
               /\ sections[Len(pre)] # pre[Len(pre)]
               /\ sections[1] = pre[1]

\* C34: whenever the section list is not empty, the active section index
\* is an index into it (0 <= activeSectionIndex < number of sections).
ActiveIndexValid ==
    Mounted /\ sections # <<>> => HasActiveSection

\* C35: isStreaming tracks the newest run.  While the whole-document
\* stream started last is open and the user has not navigated away from
\* it, isStreaming is true, whatever earlier streams do.
FlagTracksNewestRun ==
    \A i \in 1..Len(streams) :
        /\ streams[i].kind = "gen" /\ streams[i].open /\ ~streams[i].abandoned
        /\ \A j \in (i + 1)..Len(streams) : streams[j].kind # "gen"
        => isStreaming

\* part occurs in text as a run of consecutive characters.
Occurs(part, text) ==
    \E k \in 0..(Len(text) - Len(part)) : SubSeq(text, k + 1, k + Len(part)) = part

\* C36: the patch guard.  Every fragment of a patch goes into the patch's
\* replacement buffer.  When the section list of the document (the parse
\* of content) has no entry at the target index, the fragment leaves
\* content and sections as they are; when it has one, the text written
\* holds the whole buffer, the fragments kept back included, in place of
\* the target section.
PatchGuard ==
    [][\A i \in 1..Len(streams) : \A chunk \in Fragments \ {<<>>} :
          streams[i].kind = "patch" /\ StreamChunk(i, chunk) =>
              /\ streams'[i].acc = streams[i].acc \o chunk
              /\ IF Len(ParseSections(content)) <= streams[i].targetIndex
                 THEN content' = content /\ sections' = sections
                 ELSE content' = updatedFullContent(ParseSections(content),
                                                    streams[i].targetIndex,
                                                    streams[i].acc \o chunk)]_vars

\* PatchGuard for the patches of the component on display.
PatchGuardWhileMounted ==
    [][\A i \in 1..Len(streams) : \A chunk \in Fragments \ {<<>>} :
          streams[i].kind = "patch" /\ streams[i].live /\ StreamChunk(i, chunk) =>
              /\ streams'[i].acc = streams[i].acc \o chunk
              /\ IF Len(ParseSections(content)) <= streams[i].targetIndex
                 THEN content' = content /\ sections' = sections
                 ELSE content' = updatedFullContent(ParseSections(content),
                                                    streams[i].targetIndex,
                                                    streams[i].acc \o chunk)]_vars

\* A fragment of a patch on display was kept back: the list has no entry
\* at the target index and the buffer is not in the text.
FragmentKeptBack ==
    /\ last.op = "chunk" /\ last.arg.chunk # <<>>
    /\ streams[last.arg.stream].kind = "patch"
    /\ streams[last.arg.stream].live
    /\ Len(sections) <= streams[last.arg.stream].targetIndex
    /\ ~Occurs(streams[last.arg.stream].acc, content)

\* C37: a section patch never changes the version history.  Its start
\* (the diagram button or the dialog's confirm button), each of its
\* fragments and its completion or failure leave history as it is.
PatchKeepsHistory ==
    [][(\/ InsertDiagram
        \/ ConfirmExpand
        \/ \E i \in 1..Len(streams) :
               /\ streams[i].kind = "patch"
               /\ \/ \E chunk \in Fragments : StreamChunk(i, chunk)
                  \/ \E failed \in BOOLEAN : StreamEnd(i, failed))
       => history' = history]_vars

\* A patch that delivered text has ended and the history holds the
\* versions it held.
PatchEndedWithHistory ==
    /\ last.op \in {"complete", "fail"}
    /\ streams[last.arg.stream].kind = "patch"
    /\ last.arg.acc # <<>>
    /\ history # <<>>

====
